---------------------------- MODULE Spec2Model ----------------------------
(***************************************************************************)
(* Model of the Express products API: the router of routes/products.js,    *)
(* the middleware of middleware/auth.js and middleware/validation.js, the  *)
(* error responder of utils/errors.js and the application of server.js.    *)
(*                                                                         *)
(* JavaScript strings are sequences of one-character strings, so that      *)
(* trim, toLowerCase, includes, parseInt and parseFloat are computed.      *)
(* JavaScript numbers that are prices are integers counting hundredths     *)
(* (1299.99 is 129999); page and limit are plain integers.                 *)
(***************************************************************************)
EXTENDS Integers, Sequences, FiniteSets, TLC

\* ------------------------------------------------------------------------
\* Bounds of the model
\* ------------------------------------------------------------------------

\* Store mutations (successful POST, PUT, DELETE) explored from the seed data.
MaxWrites == 2

\* ------------------------------------------------------------------------
\* JavaScript values
\* ------------------------------------------------------------------------

JSV(t, s, n, b) == [t |-> t, s |-> s, n |-> n, b |-> b]

Undef == JSV("undefined", <<>>, 0, FALSE)

Null == JSV("null", <<>>, 0, FALSE)

NaN == JSV("NaN", <<>>, 0, FALSE)

Str(s) == JSV("string", s, 0, FALSE)

Num(n) == JSV("number", <<>>, n, FALSE)

Bool(b) == JSV("boolean", <<>>, 0, b)

\* typeof v
TypeOf(v) ==
  CASE v.t = "string" -> "string"
    [] v.t \in {"number", "NaN"} -> "number"
    [] v.t = "boolean" -> "boolean"
    [] v.t = "undefined" -> "undefined"
    [] OTHER -> "object"

\* ToBoolean(v): what `!v`, `v &&` and `v ||` test
Truthy(v) ==
  CASE v.t = "string" -> Len(v.s) > 0
    [] v.t = "number" -> v.n # 0
    [] v.t = "boolean" -> v.b
    [] OTHER -> FALSE

\* ------------------------------------------------------------------------
\* Strings
\* ------------------------------------------------------------------------

UpperCase == <<"A", "B", "C", "D", "E", "F", "G", "H", "I", "J", "K", "L", "M", "N", "O", "P", "Q", "R", "S", "T", "U", "V", "W", "X", "Y", "Z">>

LowerCase == <<"a", "b", "c", "d", "e", "f", "g", "h", "i", "j", "k", "l", "m", "n", "o", "p", "q", "r", "s", "t", "u", "v", "w", "x", "y", "z">>

Digits == <<"0", "1", "2", "3", "4", "5", "6", "7", "8", "9">>

IsSpace(c) == c = " "

IsDigit(c) == \E i \in 1..Len(Digits) : Digits[i] = c

DigitVal(c) == (CHOOSE i \in 1..Len(Digits) : Digits[i] = c) - 1

LowerChar(c) ==
  IF \E i \in 1..Len(UpperCase) : UpperCase[i] = c
  THEN LowerCase[CHOOSE i \in 1..Len(UpperCase) : UpperCase[i] = c]
  ELSE c

\* String.prototype.toLowerCase
ToLowerCase(s) == [i \in 1..Len(s) |-> LowerChar(s[i])]

\* the text left after leading white space is skipped
RECURSIVE SkipSpace(_)
SkipSpace(s) == IF Len(s) > 0 /\ IsSpace(Head(s)) THEN SkipSpace(Tail(s)) ELSE s

RECURSIVE DropTrailingSpace(_)
DropTrailingSpace(s) ==
  IF Len(s) > 0 /\ IsSpace(s[Len(s)])
  THEN DropTrailingSpace(SubSeq(s, 1, Len(s) - 1))
  ELSE s

\* String.prototype.trim
Trim(s) == DropTrailingSpace(SkipSpace(s))

\* String.prototype.includes
Includes(s, q) ==
  \E i \in 1..(Len(s) - Len(q) + 1) : SubSeq(s, i, i + Len(q) - 1) = q

\* ------------------------------------------------------------------------
\* Numbers read from text
\* ------------------------------------------------------------------------

\* the longest prefix of s made of decimal digits
RECURSIVE DigitPrefix(_)
DigitPrefix(s) ==
  IF Len(s) > 0 /\ IsDigit(Head(s)) THEN <<Head(s)>> \o DigitPrefix(Tail(s)) ELSE <<>>

RECURSIVE DigitsValue(_)
DigitsValue(d) ==
  IF Len(d) = 0 THEN 0 ELSE 10 * DigitsValue(SubSeq(d, 1, Len(d) - 1)) + DigitVal(d[Len(d)])

\* an optional sign followed by the text it applies to
SignOf(s) == IF Len(s) > 0 /\ Head(s) = "-" THEN -1 ELSE 1

Unsigned(s) == IF Len(s) > 0 /\ Head(s) \in {"-", "+"} THEN Tail(s) ELSE s

\* the decimal integer a text starts with: [ok |-> FALSE] is NaN
PrefixInteger(s) ==
  LET body == Unsigned(SkipSpace(s))
      d == DigitPrefix(body)
  IN IF Len(d) = 0
     THEN [ok |-> FALSE, n |-> 0]
     ELSE [ok |-> TRUE, n |-> SignOf(SkipSpace(s)) * DigitsValue(d)]

\* parseInt(v) of a query parameter (a string, or undefined)
ParseInt(v) == IF v.t = "string" THEN PrefixInteger(v.s) ELSE [ok |-> FALSE, n |-> 0]

\* parseInt(v) || dflt
ParseIntOr(v, dflt) ==
  LET r == ParseInt(v) IN IF r.ok /\ r.n # 0 THEN r.n ELSE dflt

\* Number(text): the whole trimmed text must be a number, the empty text is 0
StringToNumber(s) ==
  LET t == Trim(s)
      body == Unsigned(t)
      d == DigitPrefix(body)
  IN IF Len(t) = 0 THEN Num(0)
     ELSE IF Len(d) > 0 /\ Len(d) = Len(body) THEN Num(100 * SignOf(t) * DigitsValue(d))
     ELSE NaN

\* Number(v)
ToNumber(v) ==
  CASE v.t = "string" -> StringToNumber(v.s)
    [] v.t = "number" -> v
    [] v.t = "boolean" -> IF v.b THEN Num(100) ELSE Num(0)
    [] v.t = "null" -> Num(0)
    [] OTHER -> NaN

\* isNaN(v)
IsNaN(v) == ToNumber(v).t = "NaN"

\* parseFloat(v): the number String(v) starts with
ParseFloat(v) ==
  CASE v.t = "string" ->
         LET r == PrefixInteger(v.s) IN IF r.ok THEN Num(100 * r.n) ELSE NaN
    [] v.t = "number" -> v
    [] OTHER -> NaN

\* x <= 0 for a number x (false for NaN)
LeqZero(x) == x.t = "number" /\ x.n <= 0

\* ------------------------------------------------------------------------
\* Errors (utils/errors.js)
\* ------------------------------------------------------------------------

\* An error object: its class (for instanceof), the properties the responder
\* reads.  statusCode 0 and code 0 stand for an undefined property; message ""
\* is the empty message.
ErrorObject(class, name, message, statusCode, hasDetails, details, hasErrors, errors, code) ==
  [class |-> class, name |-> name, message |-> message, statusCode |-> statusCode,
   hasDetails |-> hasDetails, details |-> details,
   hasErrors |-> hasErrors, errors |-> errors, code |-> code]

\* no error was raised
NoError == ErrorObject("none", "none", "", 0, FALSE, <<>>, FALSE, <<>>, 0)

\* new Error(message) with error.statusCode = statusCode
PlainError(message, statusCode) ==
  ErrorObject("Error", "Error", message, statusCode, FALSE, <<>>, FALSE, <<>>, 0)

\* new Error('Validation failed') with statusCode 400 and details = errors
DetailedError(message, statusCode, details) ==
  ErrorObject("Error", "Error", message, statusCode, TRUE, details, FALSE, <<>>, 0)

\* a TypeError or ReferenceError raised by the runtime
RuntimeError(name, message) ==
  ErrorObject(name, name, message, 0, FALSE, <<>>, FALSE, <<>>, 0)

NotFoundError(message) ==
  ErrorObject("NotFoundError", "NotFoundError", message, 404, FALSE, <<>>, FALSE, <<>>, 0)

ValidationError(message, details) ==
  ErrorObject("ValidationError", "ValidationError", message, 400, TRUE, details, FALSE, <<>>, 0)

AuthenticationError(message) ==
  ErrorObject("AuthenticationError", "AuthenticationError", message, 401, FALSE, <<>>, FALSE, <<>>, 0)

\* ------------------------------------------------------------------------
\* Responses
\* ------------------------------------------------------------------------

\* res.status(status).json(body); kind names the shape of the body
Response(status, kind, body) == [status |-> status, kind |-> kind, body |-> body]

NoResponse == Response(0, "none", [none |-> TRUE])

\* { error, details?, stack? }
ErrorBody(message, hasDetails, details, hasStack) ==
  [error |-> message, hasDetails |-> hasDetails, details |-> details, hasStack |-> hasStack]

\* Express's own last-resort answer to an error no error middleware answered
FinalHandler == Response(500, "html", [error |-> "Internal Server Error"])

\* errorHandler(err, req, res, next): [threw |-> TRUE] when it raises instead
\* of answering (Object.values(undefined) for an error named ValidationError
\* that has no `errors` property)
errorHandler(err, nodeEnv) ==
  LET e0 == [message |-> IF err.message # "" THEN err.message ELSE "Internal Server Error",
             statusCode |-> IF err.statusCode # 0 THEN err.statusCode ELSE 500,
             hasDetails |-> FALSE, details |-> <<>>]
      threw == err.name = "ValidationError" /\ ~err.hasErrors
      e1 == IF err.name = "ValidationError"
            THEN [e0 EXCEPT !.message = "Validation failed", !.statusCode = 400,
                            !.hasDetails = TRUE, !.details = err.errors]
            ELSE e0
      e2 == IF err.code = 11000
            THEN [e1 EXCEPT !.message = "Duplicate field value entered", !.statusCode = 400]
            ELSE e1
      e3 == IF err.name = "CastError"
            THEN [e2 EXCEPT !.message = "Resource not found", !.statusCode = 404]
            ELSE e2
      e4 == IF err.class = "NotFoundError"
            THEN [e3 EXCEPT !.message = err.message, !.statusCode = err.statusCode]
            ELSE e3
      e5 == IF err.class = "ValidationError"
            THEN [e4 EXCEPT !.message = err.message, !.statusCode = err.statusCode,
                            !.hasDetails = err.hasDetails, !.details = err.details]
            ELSE e4
      e6 == IF err.class = "AuthenticationError"
            THEN [e5 EXCEPT !.message = err.message, !.statusCode = err.statusCode]
            ELSE e5
  IN IF threw
     THEN [threw |-> TRUE, resp |-> NoResponse]
     ELSE [threw |-> FALSE,
           resp |-> Response(e6.statusCode, "error",
                             ErrorBody(e6.message, e6.hasDetails, e6.details,
                                       nodeEnv = "development"))]

\* app.use(errorHandler) is the last middleware: an error it raises falls to
\* Express's final handler
RespondToError(err, nodeEnv) ==
  LET r == errorHandler(err, nodeEnv) IN IF r.threw THEN FinalHandler ELSE r.resp

\* ------------------------------------------------------------------------
\* Middleware (middleware/auth.js, middleware/validation.js)
\* ------------------------------------------------------------------------

\* what a middleware or handler did: called next(), called next(err), or answered
PassOn == [kind |-> "next"]

Fail(err) == [kind |-> "error", err |-> err]

Answer(resp, store, count) ==
  [kind |-> "done", resp |-> resp, products |-> store, issued |-> count, thrown |-> NoError]

\* the request ended in the error handler: err is what it was handed
Failed(err, nodeEnv, store, count) ==
  [kind |-> "done", resp |-> RespondToError(err, nodeEnv), products |-> store,
   issued |-> count, thrown |-> err]

\* router.use(logger): records the request and calls next()
logger(req) == PassOn

sDefaultKey == <<"s", "e", "c", "r", "e", "t", "-", "k", "e", "y", "-", "1", "2", "3">>

\* process.env.API_KEY || 'secret-key-123'
validApiKey(envKey) == IF Truthy(envKey) THEN envKey ELSE Str(sDefaultKey)

authenticate(req, envKey) ==
  IF ~Truthy(req.apiKey) THEN Fail(PlainError("API key is required", 401))
  ELSE IF req.apiKey # validApiKey(envKey) THEN Fail(PlainError("Invalid API key", 401))
  ELSE PassOn

\* !v || typeof v !== 'string' || v.trim().length === 0
RequiredTextFails(v) == ~Truthy(v) \/ TypeOf(v) # "string" \/ Len(Trim(v.s)) = 0

\* !price || isNaN(price) || parseFloat(price) <= 0
RequiredPriceFails(v) == ~Truthy(v) \/ IsNaN(v) \/ LeqZero(ParseFloat(v))

\* v && (typeof v !== 'string' || v.trim().length === 0)
OptionalTextFails(v) == Truthy(v) /\ (TypeOf(v) # "string" \/ Len(Trim(v.s)) = 0)

\* price && (isNaN(price) || parseFloat(price) <= 0)
OptionalPriceFails(v) == Truthy(v) /\ (IsNaN(v) \/ LeqZero(ParseFloat(v)))

\* inStock !== undefined && typeof inStock !== 'boolean'
OptionalBooleanFails(v) == v # Undef /\ TypeOf(v) # "boolean"

When(cond, message) == IF cond THEN <<message>> ELSE <<>>

\* the errors array of validateProduct
createErrors(body) ==
  When(RequiredTextFails(body.name), "Name is required and must be a non-empty string")
  \o When(RequiredTextFails(body.description), "Description is required and must be a non-empty string")
  \o When(RequiredPriceFails(body.price), "Price is required and must be a positive number")
  \o When(RequiredTextFails(body.category), "Category is required and must be a non-empty string")

validateProduct(req) ==
  IF Len(createErrors(req.body)) > 0
  THEN Fail(DetailedError("Validation failed", 400, createErrors(req.body)))
  ELSE PassOn

\* the errors array of validateProductUpdate
updateErrors(body) ==
  When(OptionalTextFails(body.name), "Name must be a non-empty string")
  \o When(OptionalTextFails(body.description), "Description must be a non-empty string")
  \o When(OptionalPriceFails(body.price), "Price must be a positive number")
  \o When(OptionalTextFails(body.category), "Category must be a non-empty string")
  \o When(OptionalBooleanFails(body.inStock), "inStock must be a boolean")

validateProductUpdate(req) ==
  IF Len(updateErrors(req.body)) > 0
  THEN Fail(DetailedError("Validation failed", 400, updateErrors(req.body)))
  ELSE PassOn

\* ------------------------------------------------------------------------
\* The product store and its seed data (routes/products.js)
\* ------------------------------------------------------------------------

id1 == <<"1">>

id2 == <<"2">>

id3 == <<"3">>

sLaptop == <<"L", "a", "p", "t", "o", "p">>

sLaptopDesc == <<"H", "i", "g", "h", "-", "p", "e", "r", "f", "o", "r", "m", "a", "n", "c", "e", " ", "g", "a", "m", "i", "n", "g", " ", "l", "a", "p", "t", "o", "p">>

sElectronics == <<"E", "l", "e", "c", "t", "r", "o", "n", "i", "c", "s">>

sCoffeeMug == <<"C", "o", "f", "f", "e", "e", " ", "M", "u", "g">>

sCoffeeMugDesc == <<"C", "e", "r", "a", "m", "i", "c", " ", "c", "o", "f", "f", "e", "e", " ", "m", "u", "g", " ", "w", "i", "t", "h", " ", "h", "a", "n", "d", "l", "e">>

sKitchen == <<"K", "i", "t", "c", "h", "e", "n">>

sDeskLamp == <<"D", "e", "s", "k", " ", "L", "a", "m", "p">>

sDeskLampDesc == <<"L", "E", "D", " ", "d", "e", "s", "k", " ", "l", "a", "m", "p", " ", "w", "i", "t", "h", " ", "a", "d", "j", "u", "s", "t", "a", "b", "l", "e", " ", "b", "r", "i", "g", "h", "t", "n", "e", "s", "s">>

sHome == <<"H", "o", "m", "e">>

\* the properties of a product, which are also the properties read from a body
Fields == {"id", "name", "description", "price", "category", "inStock"}

Product(id, name, description, price, category, inStock) ==
  [id |-> id, name |-> name, description |-> description, price |-> price,
   category |-> category, inStock |-> inStock]

\* let products = [ ... ]
SeedProducts ==
  << Product(Str(id1), Str(sLaptop), Str(sLaptopDesc), Num(129999), Str(sElectronics), Bool(TRUE)),
     Product(Str(id2), Str(sCoffeeMug), Str(sCoffeeMugDesc), Num(1299), Str(sKitchen), Bool(TRUE)),
     Product(Str(id3), Str(sDeskLamp), Str(sDeskLampDesc), Num(3499), Str(sHome), Bool(FALSE)) >>

\* the decimal text of a natural number
RECURSIVE Decimal(_)
Decimal(n) == IF n < 10 THEN <<Digits[n + 1]>> ELSE Decimal(n \div 10) \o <<Digits[(n % 10) + 1]>>

\* uuidv4(): the count-th identifier drawn; every draw is fresh, and no draw
\* is the text of a seed identifier
uuidv4(count) == <<"u">> \o Decimal(count)

\* an index of Array.prototype.slice, made relative to the length
SliceIndex(i, len) == IF i < 0 THEN (IF len + i < 0 THEN 0 ELSE len + i) ELSE (IF i < len THEN i ELSE len)

\* Array.prototype.slice(start, end)
Slice(seq, start, end) ==
  SubSeq(seq, SliceIndex(start, Len(seq)) + 1, SliceIndex(end, Len(seq)))

\* Math.ceil(a / b) for integers a and b # 0
CeilDiv(a, b) == -((-a) \div b)

\* products.findIndex(p => p.id === id), 0 for -1
FindIndex(store, id) ==
  IF \E i \in 1..Len(store) : store[i].id = Str(id)
  THEN CHOOSE i \in 1..Len(store) :
         store[i].id = Str(id) /\ \A j \in 1..(i - 1) : store[j].id # Str(id)
  ELSE 0

\* products.splice(index, 1)
Splice(store, index) == SubSeq(store, 1, index - 1) \o SubSeq(store, index + 1, Len(store))

\* ------------------------------------------------------------------------
\* Requests
\* ------------------------------------------------------------------------

\* the query parameters the handlers read, each a string or undefined
Query(category, inStock, page, limit, q) ==
  [category |-> category, inStock |-> inStock, page |-> page, limit |-> limit, q |-> q]

NoQuery == Query(Undef, Undef, Undef, Undef, Undef)

\* req.body as express.json() leaves it: an object, absent properties undefined
EmptyBody == [f \in Fields |-> Undef]

\* a request under /api/products: path is <<>> for the router's "/", or the
\* one path segment that follows it
Request(method, path, apiKey, query, body) ==
  [method |-> method, path |-> path, apiKey |-> apiKey, query |-> query, body |-> body]

NoRequest == Request("none", <<>>, Undef, NoQuery, EmptyBody)

\* ------------------------------------------------------------------------
\* Route handlers (routes/products.js)
\* ------------------------------------------------------------------------

sTrue == <<"t", "r", "u", "e">>

sSearch == <<"s", "e", "a", "r", "c", "h">>

sStats == <<"s", "t", "a", "t", "s">>

\* page defaults to 1
DefaultPage == 1

\* limit defaults to 10
DefaultLimit == 10

\* the products kept by the category and inStock filters of GET /
listFiltered(req, store) ==
  LET byCategory ==
        IF Truthy(req.query.category)
        THEN SelectSeq(store, LAMBDA p :
               ToLowerCase(p.category.s) = ToLowerCase(req.query.category.s))
        ELSE store
  IN IF Truthy(req.query.inStock)
     THEN SelectSeq(byCategory, LAMBDA p : p.inStock = Bool(req.query.inStock.s = sTrue))
     ELSE byCategory

\* router.get('/'): the handler takes (req, res) only, so the next(error) of
\* its catch block raises a ReferenceError, which Express forwards as the error
listProducts(req, store, count) ==
  LET raises == Truthy(req.query.category)
                /\ \E i \in 1..Len(store) : TypeOf(store[i].category) # "string"
      page == ParseIntOr(req.query.page, DefaultPage)
      limit == ParseIntOr(req.query.limit, DefaultLimit)
      startIndex == (page - 1) * limit
      endIndex == startIndex + limit
      filteredProducts == listFiltered(req, store)
  IN IF raises
     THEN Fail(RuntimeError("ReferenceError", "next is not defined"))
     ELSE Answer(Response(200, "list",
                   [total |-> Len(filteredProducts), page |-> page, limit |-> limit,
                    totalPages |-> CeilDiv(Len(filteredProducts), limit),
                    data |-> Slice(filteredProducts, startIndex, endIndex)]),
                 store, count)

\* router.get('/:id')
getProduct(req, store, count) ==
  IF FindIndex(store, req.path) = 0
  THEN Fail(PlainError("Product not found", 404))
  ELSE Answer(Response(200, "product", store[FindIndex(store, req.path)]), store, count)

\* router.post('/') after its middleware
createProduct(req, store, count) ==
  LET newProduct == Product(Str(uuidv4(count + 1)), req.body.name, req.body.description,
                            ParseFloat(req.body.price), req.body.category,
                            Bool(Truthy(req.body.inStock)))
  IN Answer(Response(201, "written",
              [message |-> "Product created successfully", product |-> newProduct]),
            Append(store, newProduct), count + 1)

\* { ...products[productIndex], ...req.body, id: req.params.id }
updateProductReplacing(old, req) == [f \in Fields |-> IF f = "id" THEN Str(req.path) ELSE req.body[f]]

updateProductKeepingBodyId(old, req) ==
  [f \in Fields |-> IF req.body[f] # Undef THEN req.body[f] ELSE old[f]]

mergedProduct(old, req) ==
  [f \in Fields |->
     IF f = "id" THEN Str(req.path)
     ELSE IF req.body[f] # Undef THEN req.body[f] ELSE old[f]]

\* router.put('/:id') after its middleware
updateProduct(req, store, count) ==
  LET productIndex == FindIndex(store, req.path) IN
  IF productIndex = 0
  THEN Fail(PlainError("Product not found", 404))
  ELSE LET updated == [store EXCEPT ![productIndex] = mergedProduct(store[productIndex], req)]
       IN Answer(Response(200, "written",
                   [message |-> "Product updated successfully",
                    product |-> updated[productIndex]]),
                 updated, count)

\* router.delete('/:id') after its middleware
deleteProduct(req, store, count) ==
  LET productIndex == FindIndex(store, req.path) IN
  IF productIndex = 0
  THEN Fail(PlainError("Product not found", 404))
  ELSE Answer(Response(200, "written",
                [message |-> "Product deleted successfully",
                 product |-> store[productIndex]]),
              Splice(store, productIndex), count)

\* router.get('/search')
searchProducts(req, store, count) ==
  LET query == IF TypeOf(req.query.q) = "string" THEN Str(ToLowerCase(req.query.q.s)) ELSE Undef
      raises == \E i \in 1..Len(store) :
                  TypeOf(store[i].name) # "string"
                  \/ (~Includes(ToLowerCase(store[i].name.s), query.s)
                      /\ TypeOf(store[i].description) # "string")
      searchResults == SelectSeq(store, LAMBDA p :
                         Includes(ToLowerCase(p.name.s), query.s)
                         \/ Includes(ToLowerCase(p.description.s), query.s))
  IN IF ~Truthy(query)
     THEN Answer(Response(400, "searchRequired",
                   [error |-> "Search query is required",
                    message |-> "Please provide a search query using the \"q\" parameter"]),
                 store, count)
     ELSE IF raises
     THEN Fail(RuntimeError("TypeError", "toLowerCase is not a function"))
     ELSE Answer(Response(200, "search",
                   [query |-> query.s, total |-> Len(searchResults), results |-> searchResults]),
                 store, count)

\* the sum of the prices of a store whose prices are all numbers
RECURSIVE SumPrices(_)
SumPrices(store) == IF Len(store) = 0 THEN 0 ELSE Head(store).price.n + SumPrices(Tail(store))

\* priceStats: Math.max, Math.min and the mean of the prices.  Of an empty
\* store they are -Infinity, Infinity and NaN (0 / 0); the mean is kept as the
\* sum and the count it divides; a price that is not a number makes them NaN
\* or text
priceStats(store) ==
  IF Len(store) = 0
  THEN [highest |-> "-Infinity", lowest |-> "Infinity", average |-> "NaN"]
  ELSE IF \A i \in 1..Len(store) : store[i].price.t = "number"
  THEN [highest |-> CHOOSE n \in {store[i].price.n : i \in 1..Len(store)} :
                      \A i \in 1..Len(store) : store[i].price.n <= n,
        lowest |-> CHOOSE n \in {store[i].price.n : i \in 1..Len(store)} :
                     \A i \in 1..Len(store) : store[i].price.n >= n,
        average |-> [sum |-> SumPrices(store), count |-> Len(store)]]
  ELSE [highest |-> "NaN or text", lowest |-> "NaN or text", average |-> "NaN or text"]

\* router.get('/stats')
productStats(req, store, count) ==
  LET categories == {store[i].category : i \in 1..Len(store)}
  IN Answer(Response(200, "stats",
              [totalProducts |-> Len(store),
               inStock |-> Len(SelectSeq(store, LAMBDA p : Truthy(p.inStock))),
               outOfStock |-> Len(SelectSeq(store, LAMBDA p : ~Truthy(p.inStock))),
               categories |-> [c \in categories |->
                                 Len(SelectSeq(store, LAMBDA p : p.category = c))],
               priceStats |-> priceStats(store)]),
            store, count)

\* ------------------------------------------------------------------------
\* Routing (routes/products.js, server.js)
\* ------------------------------------------------------------------------

Route(method, pattern, chain) == [method |-> method, pattern |-> pattern, chain |-> chain]

postChainValidatingFirst == <<"validateProduct", "authenticate", "createProduct">>

\* router.post('/', authenticate, validateProduct, handler)
postChain == <<"authenticate", "validateProduct", "createProduct">>

\* router.put('/:id', authenticate, validateProductUpdate, handler)
putChain == <<"authenticate", "validateProductUpdate", "updateProduct">>

deleteChainWithoutAuth == <<"deleteProduct">>

\* router.delete('/:id', authenticate, handler)
deleteChain == <<"authenticate", "deleteProduct">>

\* the router's routes in the order they are registered
Routes ==
  << Route("GET", "/", <<"listProducts">>),
     Route("GET", "/:id", <<"getProduct">>),
     Route("POST", "/", postChain),
     Route("PUT", "/:id", putChain),
     Route("DELETE", "/:id", deleteChain),
     Route("GET", "/search", <<"searchProducts">>),
     Route("GET", "/stats", <<"productStats">>) >>

\* whether a route's method and path pattern match a request
Matches(route, req) ==
  /\ route.method = req.method
  /\ CASE route.pattern = "/" -> req.path = <<>>
       [] route.pattern = "/:id" -> req.path # <<>>
       [] route.pattern = "/search" -> req.path = sSearch
       [] route.pattern = "/stats" -> req.path = sStats

\* the first registered route that matches, 0 when none does
FirstMatch(req) ==
  IF \E i \in 1..Len(Routes) : Matches(Routes[i], req)
  THEN CHOOSE i \in 1..Len(Routes) :
         Matches(Routes[i], req) /\ \A j \in 1..(i - 1) : ~Matches(Routes[j], req)
  ELSE 0

\* app.use('*', ...): the answer to a request no route matched
RouteNotFound(store, count) ==
  Answer(Response(404, "routeNotFound", [error |-> "Route not found"]), store, count)

\* one middleware or handler of a chain, run on the request
RunStage(stage, req, store, count, env) ==
  CASE stage = "authenticate" -> authenticate(req, env.API_KEY)
    [] stage = "validateProduct" -> validateProduct(req)
    [] stage = "validateProductUpdate" -> validateProductUpdate(req)
    [] stage = "listProducts" -> listProducts(req, store, count)
    [] stage = "getProduct" -> getProduct(req, store, count)
    [] stage = "createProduct" -> createProduct(req, store, count)
    [] stage = "updateProduct" -> updateProduct(req, store, count)
    [] stage = "deleteProduct" -> deleteProduct(req, store, count)
    [] stage = "searchProducts" -> searchProducts(req, store, count)
    [] stage = "productStats" -> productStats(req, store, count)

\* a chain run from its i-th stage: next() goes on, next(err) goes to the
\* error handler with the store untouched, an answer ends the request
RECURSIVE RunChain(_, _, _, _, _, _)
RunChain(chain, i, req, store, count, env) ==
  IF i > Len(chain) THEN RouteNotFound(store, count)
  ELSE LET r == RunStage(chain[i], req, store, count, env) IN
       CASE r.kind = "next" -> RunChain(chain, i + 1, req, store, count, env)
         [] r.kind = "error" -> Failed(r.err, env.NODE_ENV, store, count)
         [] r.kind = "done" -> r

\* the whole of the application's answer to one request
Serve(req, store, count, env) ==
  IF logger(req).kind # "next" \/ FirstMatch(req) = 0 THEN RouteNotFound(store, count)
  ELSE RunChain(Routes[FirstMatch(req)].chain, 1, req, store, count, env)

\* ------------------------------------------------------------------------
\* The requests explored
\* ------------------------------------------------------------------------

id999 == <<"9", "9", "9">>

sOtherKey == <<"k", "-", "4", "2">>

sPen == <<"P", "e", "n">>

sInkPen == <<"I", "n", "k", " ", "p", "e", "n">>

sOffice == <<"O", "f", "f", "i", "c", "e">>

sYes == <<"y", "e", "s">>

\* the x-api-key header: missing, empty, the default secret, another key
ApiKeys == {Undef, Str(<<>>), Str(sDefaultKey), Str(sOtherKey)}

\* the deployments: process.env.API_KEY and process.env.NODE_ENV
Environments ==
  { [API_KEY |-> Undef, NODE_ENV |-> "production"],
    [API_KEY |-> Str(sOtherKey), NODE_ENV |-> "development"] }

\* identifiers named in a path: a seed identifier, one never in the store,
\* the first identifier drawn
Identifiers == {id2, id999, uuidv4(1)}

\* the path segments a GET names: identifiers and the two literal paths
Segments == Identifiers \cup {sSearch, sStats}

\* values a body may carry for each property
FieldValues(f) ==
  CASE f = "id" -> {Str(id1)}
    [] f = "name" -> {Str(<<>>), Str(<<" ">>), Num(700)}
    [] f = "description" -> {Str(<<" ">>)}
    [] f = "price" -> {Num(0), Num(-500), Num(250), Str(<<" ">>), Str(<<"x">>), Bool(TRUE)}
    [] f = "category" -> {Null, Str(<<>>)}
    [] f = "inStock" -> {Bool(FALSE), Str(sYes)}

\* a body with every property: valid for a create; for an update all but
\* its inStock is valid
FullBody ==
  [id |-> Str(id1), name |-> Str(sPen), description |-> Str(sInkPen),
   price |-> Str(<<"5">>), category |-> Str(sOffice), inStock |-> Str(sYes)]

\* the empty body, the full body, every body with a single property, and the
\* full body with one property left out
Bodies ==
  {EmptyBody, FullBody}
  \cup {[EmptyBody EXCEPT ![f] = v] : <<f, v>> \in UNION {{f} \X FieldValues(f) : f \in Fields}}
  \cup {[FullBody EXCEPT ![f] = Undef] : f \in Fields}

\* query strings of GET /
PageTexts == {Undef, Str(<<"2">>), Str(<<"-", "1">>)}

LimitTexts == {Undef, Str(<<"2">>), Str(<<"-", "2">>), Str(<<"x">>)}

CategoryTexts == {Undef, Str(<<"k", "i", "t", "c", "h", "e", "n">>)}

InStockTexts == {Undef, Str(sTrue), Str(sYes)}

SearchTexts == {Undef, Str(<<>>), Str(<<"L", "A", "P">>)}

\* ------------------------------------------------------------------------
\* State
\* ------------------------------------------------------------------------

VARIABLES
  products,   \* the in-memory store: let products
  issued,     \* how many identifiers uuidv4 has drawn
  env,        \* process.env, read-only after start
  phase,      \* "idle" between requests, "responded" once one is answered
  request,    \* the request just answered
  response,   \* its one response
  before,     \* the store as it was when the request arrived
  thrown,     \* the error handed to the error handler, NoError when none was
  writes      \* how many requests changed the store so far

vars == <<products, issued, env, phase, request, response, before, thrown, writes>>

Init ==
  /\ products = SeedProducts
  /\ issued = 0
  /\ env \in Environments
  /\ phase = "idle"
  /\ request = NoRequest
  /\ response = NoResponse
  /\ before = SeedProducts
  /\ thrown = NoError
  /\ writes = 0

\* the application answers req: the whole pipeline runs to its response
Handle(req) ==
  \E out \in {Serve(req, products, issued, env)} :
    /\ out.products # products => writes < MaxWrites
    /\ products' = out.products
    /\ issued' = out.issued
    /\ response' = out.resp
    /\ thrown' = out.thrown
    /\ writes' = IF out.products # products THEN writes + 1 ELSE writes
    /\ request' = req
    /\ before' = products
    /\ phase' = "responded"
    /\ UNCHANGED env

\* GET /api/products
GetList ==
  /\ phase = "idle"
  /\ \E c \in CategoryTexts, s \in InStockTexts, p \in PageTexts, l \in LimitTexts :
       Handle(Request("GET", <<>>, Undef, Query(c, s, p, l, Undef), EmptyBody))

\* GET /api/products/<segment>
GetSegment ==
  /\ phase = "idle"
  /\ \E seg \in Segments, q \in SearchTexts :
       Handle(Request("GET", seg, Undef, Query(Undef, Undef, Undef, Undef, q), EmptyBody))

\* POST /api/products
Post ==
  /\ phase = "idle"
  /\ \E k \in ApiKeys, b \in Bodies : Handle(Request("POST", <<>>, k, NoQuery, b))

\* PUT /api/products/<id>
Put ==
  /\ phase = "idle"
  /\ \E seg \in Identifiers, k \in ApiKeys, b \in Bodies :
       Handle(Request("PUT", seg, k, NoQuery, b))

\* DELETE /api/products/<id>
Delete ==
  /\ phase = "idle"
  /\ \E seg \in Identifiers, k \in ApiKeys :
       Handle(Request("DELETE", seg, k, NoQuery, EmptyBody))

\* a request no route of the router matches
Unrouted ==
  /\ phase = "idle"
  /\ \E k \in ApiKeys : Handle(Request("DELETE", <<>>, k, NoQuery, EmptyBody))

\* the response has been sent; the server waits for the next request
Complete ==
  /\ phase = "responded"
  /\ phase' = "idle"
  /\ request' = NoRequest
  /\ response' = NoResponse
  /\ before' = products
  /\ thrown' = NoError
  /\ UNCHANGED <<products, issued, env, writes>>

Next == GetList \/ GetSegment \/ Post \/ Put \/ Delete \/ Unrouted \/ Complete

Spec == Init /\ [][Next]_vars

\* ------------------------------------------------------------------------
\* The error responder on its own
\* ------------------------------------------------------------------------

ErrorMessages == {"", "Product not found", "Validation failed"}

DetailLists ==
  { <<>>,
    <<"Price must be a positive number">>,
    <<"Name must be a non-empty string", "inStock must be a boolean">> }

\* statusCode left undefined, or set
StatusCodes == {0, 400, 401, 404, 409}

\* the custom error classes, with their default and with given messages
ClassedErrors ==
  {NotFoundError(m) : m \in ErrorMessages \cup {"Resource not found"}}
  \cup {ValidationError(m, d) : <<m, d>> \in ErrorMessages \X DetailLists}
  \cup {AuthenticationError(m) : m \in ErrorMessages \cup {"Authentication failed"}}

\* errors of no custom class: plain errors as the middleware and the handlers
\* build them, and errors of the runtime
UnclassedErrors ==
  {PlainError(m, c) : <<m, c>> \in ErrorMessages \X StatusCodes}
  \cup {DetailedError(m, c, d) : <<m, c, d>> \in ErrorMessages \X StatusCodes \X DetailLists}
  \cup {RuntimeError("TypeError", "toLowerCase is not a function"),
        RuntimeError("ReferenceError", "next is not defined")}

\* errors in the shapes of the library the handler's first branches are for
LibraryErrors ==
  { ErrorObject("MongooseError", "ValidationError", "Product validation failed", 0,
                FALSE, <<>>, TRUE, <<"Path name is required.">>, 0),
    ErrorObject("MongoServerError", "MongoServerError", "E11000 duplicate key", 0,
                FALSE, <<>>, FALSE, <<>>, 11000),
    ErrorObject("MongooseError", "CastError", "Cast to ObjectId failed", 0,
                FALSE, <<>>, FALSE, <<>>, 0) }

\* next(err) reaches the error handler with err
HandError ==
  /\ phase = "idle"
  /\ \E err \in ClassedErrors \cup UnclassedErrors \cup LibraryErrors :
       /\ thrown' = err
       /\ response' = RespondToError(err, env.NODE_ENV)
  /\ phase' = "responded"
  /\ before' = products
  /\ UNCHANGED <<products, issued, env, request, writes>>

ErrorNext == HandError \/ Complete

ErrorSpec == Init /\ [][ErrorNext]_vars

\* ------------------------------------------------------------------------
\* Properties
\* ------------------------------------------------------------------------

Responded == phase = "responded"

\* the request carried the configured API key
HasValidKey ==
  request.apiKey = (IF env.API_KEY = Undef THEN Str(sDefaultKey) ELSE env.API_KEY)

IsPost == request.method = "POST" /\ request.path = <<>>

IsPut == request.method = "PUT" /\ request.path # <<>>

IsDelete == request.method = "DELETE" /\ request.path # <<>>

IsGetOf(path) == request.method = "GET" /\ request.path = path

\* the identifiers in a store
IdsOf(store) == {store[i].id : i \in 1..Len(store)}

\* a value is a string that is not empty once trimmed
IsText(v) == v.t = "string" /\ \E i \in 1..Len(v.s) : v.s[i] # " "

\* a value is a number strictly greater than 0
IsPositiveNumber(v) == v.t = "number" /\ v.n > 0

\* the constraint of the Validator on each property of a product
Satisfies(f, v) ==
  CASE f \in {"name", "description", "category"} -> IsText(v)
    [] f = "price" -> IsPositiveNumber(v)
    [] f = "inStock" -> v.t = "boolean"
    [] OTHER -> TRUE

\* the violation messages of a create, in field order
ExpectedCreateDetails(body) ==
  (IF IsText(body.name) THEN <<>>
   ELSE <<"Name is required and must be a non-empty string">>)
  \o (IF IsText(body.description) THEN <<>>
      ELSE <<"Description is required and must be a non-empty string">>)
  \o (IF IsPositiveNumber(ToNumber(body.price)) THEN <<>>
      ELSE <<"Price is required and must be a positive number">>)
  \o (IF IsText(body.category) THEN <<>>
      ELSE <<"Category is required and must be a non-empty string">>)

\* C1: a POST with the valid key whose body fails validation is answered 400
\* with a details list of one message per failed constraint, in field order;
\* four messages for the empty body.
C1_ValidationDetails ==
  (Responded /\ IsPost /\ HasValidKey /\ ExpectedCreateDetails(request.body) # <<>>)
    => /\ response.status = 400
       /\ response.kind = "error"
       /\ response.body.hasDetails
       /\ response.body.details = ExpectedCreateDetails(request.body)
       /\ (request.body = EmptyBody => Len(response.body.details) = 4)

\* the products of a store whose name or description contains q, whatever the case
Containing(store, q) ==
  SelectSeq(store, LAMBDA p :
    \/ (p.name.t = "string" /\ Includes(ToLowerCase(p.name.s), ToLowerCase(q)))
    \/ (p.description.t = "string" /\ Includes(ToLowerCase(p.description.s), ToLowerCase(q))))

\* C2: GET /products/search is answered 400 when q is missing or empty, and
\* otherwise 200 with the products, in store order, whose name or description
\* contains q case-insensitively.
C2_SearchAnswered ==
  (Responded /\ IsGetOf(sSearch))
    => IF request.query.q = Undef \/ request.query.q = Str(<<>>)
       THEN response.status = 400
       ELSE /\ response.status = 200
            /\ response.kind = "search"
            /\ response.body.results = Containing(before, request.query.q.s)

\* C3: GET /products/stats is answered 200 with a stats object in which
\* inStock + outOfStock = totalProducts.
C3_StatsAnswered ==
  (Responded /\ IsGetOf(sStats))
    => /\ response.status = 200
       /\ response.kind = "stats"
       /\ response.body.inStock + response.body.outOfStock = response.body.totalProducts

\* C4: every stored product has a non-empty name, description and category,
\* a price above 0 and a boolean inStock; a PUT whose body carries a property
\* violating its constraint is answered 400 and leaves the store unchanged.
C4_StoredProductsValid ==
  /\ \A i \in 1..Len(products) : \A f \in Fields : Satisfies(f, products[i][f])
  /\ (Responded /\ IsPut /\ HasValidKey
      /\ \E f \in Fields : request.body[f] # Undef /\ ~Satisfies(f, request.body[f]))
       => (response.status = 400 /\ products = before)

\* C5: no two products of the store share an identifier, and the identifier
\* a create returns is none of those in the store before the create.
C5_IdentifiersUnique ==
  /\ \A i, j \in 1..Len(products) : i # j => products[i].id # products[j].id
  /\ (Responded /\ IsPost /\ response.status = 201)
       => response.body.product.id \notin IdsOf(before)

\* a second create, whose body names the identifier of a stored product
C5_Witness ==
  /\ Responded /\ IsPost /\ response.status = 201
  /\ issued = 2
  /\ request.body.id \in IdsOf(before)
  /\ Len(products) = Len(before) + 1

\* C6: a successful PUT leaves the product's identifier equal to the path's,
\* keeps the product at its position, keeps every property absent from the
\* body, and changes no other product.
C6_UpdateFrame ==
  (Responded /\ IsPut /\ response.status = 200)
    => /\ Len(products) = Len(before)
       /\ \E i \in 1..Len(before) :
            /\ before[i].id = Str(request.path)
            /\ products[i].id = Str(request.path)
            /\ \A f \in Fields \ {"id"} :
                 request.body[f] = Undef => products[i][f] = before[i][f]
            /\ \A j \in 1..Len(before) : j # i => products[j] = before[j]

\* a successful PUT of a product that is not the first, whose body names
\* another product's identifier, sets some properties and leaves one out
C6_Witness ==
  /\ Responded /\ IsPut /\ response.status = 200
  /\ request.body.id = Str(id1) /\ request.path = id2
  /\ before[2].id = Str(id2)
  /\ request.body.name # Undef /\ request.body.inStock = Undef
  /\ products # before

\* C7: a POST, PUT or DELETE of the API whose key is missing or wrong is
\* answered 401 and leaves the store as it was; the store changes only by a
\* POST, PUT or DELETE that carried the configured key, never by a GET.
C7_WritesNeedKey ==
  /\ (Responded /\ (IsPost \/ IsPut \/ IsDelete) /\ ~HasValidKey)
       => (response.status = 401 /\ products = before)
  /\ (Responded /\ products # before)
       => (request.method \in {"POST", "PUT", "DELETE"} /\ HasValidKey)
  /\ ~Responded => products = before

\* a DELETE of a stored product with a wrong key, and one with no key
C7_Witness ==
  /\ Responded /\ IsDelete /\ request.apiKey # Undef /\ ~HasValidKey
  /\ Str(request.path) \in IdsOf(before)
  /\ response.status = 401
  /\ writes > 0

\* the products the category and inStock filters of a GET / keep
ExpectedFiltered(store, query) ==
  SelectSeq(store, LAMBDA p :
    /\ (query.category \notin {Undef, Str(<<>>)}
          => p.category.t = "string"
             /\ ToLowerCase(p.category.s) = ToLowerCase(query.category.s))
    /\ (query.inStock \notin {Undef, Str(<<>>)}
          => p.inStock = Bool(query.inStock.s = sTrue)))

\* C8: every GET /products is answered with totalPages = ceil(total / limit)
\* and at most limit entries of data, total counting the products that pass
\* the filters; a page out of range gives empty data, not an error.
C8_Pagination ==
  (Responded /\ IsGetOf(<<>>))
    => /\ response.status = 200
       /\ response.kind = "list"
       /\ response.body.total = Len(ExpectedFiltered(before, request.query))
       /\ IF response.body.limit > 0
          THEN /\ response.body.totalPages * response.body.limit >= response.body.total
               /\ (response.body.totalPages - 1) * response.body.limit < response.body.total
          ELSE /\ response.body.totalPages * response.body.limit <= response.body.total
               /\ (response.body.totalPages - 1) * response.body.limit > response.body.total
       /\ Len(response.body.data) <= response.body.limit
       /\ (response.body.page < 1 \/ response.body.page > response.body.totalPages)
            => response.body.data = <<>>

\* the status code of each variant of the taxonomy, 500 for an unclassified
\* error that sets none
ExpectedStatus(err) ==
  CASE err.class = "NotFoundError" -> 404
    [] err.class = "ValidationError" -> 400
    [] err.class = "AuthenticationError" -> 401
    [] OTHER -> IF err.statusCode # 0 THEN err.statusCode ELSE 500

\* C9: for every variant of the taxonomy the error handler emits the one
\* response, with the variant's status code, the error's message, and the
\* details list when the error carries one.
C9_ErrorResponse ==
  (Responded /\ thrown \in ClassedErrors \cup UnclassedErrors)
    => /\ response.kind = "error"
       /\ response.status = ExpectedStatus(thrown)
       /\ response.body.error = (IF thrown.message = "" /\ thrown.class \in {"Error", "TypeError", "ReferenceError"}
                                 THEN "Internal Server Error" ELSE thrown.message)
       /\ thrown.hasDetails => (response.body.hasDetails /\ response.body.details = thrown.details)

\* C10: a POST or PUT without the x-api-key header is answered 401 "API key
\* is required" whatever its body and target; a 400 or 404 answers only a
\* POST or PUT that carried the valid key.
C10_AuthFirst ==
  /\ (Responded /\ (IsPost \/ IsPut) /\ request.apiKey = Undef)
       => /\ response.status = 401
          /\ response.kind = "error"
          /\ response.body.error = "API key is required"
  /\ (Responded /\ (IsPost \/ IsPut) /\ response.status \in {400, 404})
       => HasValidKey

\* a PUT without a key, of an identifier not in the store, with an invalid body
C10_Witness ==
  /\ Responded /\ IsPut /\ request.apiKey = Undef
  /\ Str(request.path) \notin IdsOf(before)
  /\ \E f \in Fields : request.body[f] # Undef /\ ~Satisfies(f, request.body[f])
  /\ response.status = 401

=============================================================================
